---------------------------- MODULE Spec2Model ----------------------------
(***************************************************************************)
(* Model of the DTF backend's DropboxService                               *)
(* (src/services/dropboxService.js): the OAuth token holder with its       *)
(* refresh protocol, and the storage gateway built on it.                  *)
(*                                                                         *)
(* Every asynchronous task (an HTTP request handler of the route layer,    *)
(* the hourly timer, the start-up check) runs one boundary operation.  A   *)
(* task runs without interruption from one remote call to the next: the    *)
(* only suspension points are the awaited HTTP calls, so one action of the *)
(* model is either the synchronous prefix of an operation up to its first  *)
(* remote call, or the handling of one remote response up to the next      *)
(* remote call (or the end of the operation).                              *)
(***************************************************************************)
EXTENDS Integers, Sequences, FiniteSets, TLC

VARIABLES
  creds,           \* appKey / appSecret / refreshToken present (constructor)
  accessToken,     \* this.accessToken
  tokenExpiresAt,  \* this.tokenExpiresAt
  now,             \* Date.now(), in milliseconds
  nExchanges,      \* POSTs issued so far to oauth2/token
  store,           \* the remote file store: path -> content
  task,            \* per task: position, locals, what it observed
  saved,           \* history: per quote id, the latest completed save
  savedLogo        \* history: per customer, the latest saved logo

vars ==
  <<creds, accessToken, tokenExpiresAt, now, nExchanges, store, task, saved,
    savedLogo>>

----------------------------------------------------------------------------
(* Bounds of the model                                                     *)

MaxNow == 2          \* clock ticks explored
MaxExchanges == 3    \* refresh exchanges explored

Tasks == {"t1", "t2"}

TickMs == 5 * 60 * 1000

\* expires_in values (seconds) the authorization endpoint answers with: one
\* shorter than the buffer window, and one that outlasts it by one tick.
Lifetimes == {300, 900}

----------------------------------------------------------------------------
(* JavaScript values                                                       *)

\* Every value carries its kind in field t, so that values of different
\* kinds can be compared.  Strings are sequences of characters.
Undefined == [t |-> "undefined"]
Null      == [t |-> "null"]
Str(s)    == [t |-> "string", v |-> s]
Num(n)    == [t |-> "number", v |-> n]
NaN       == [t |-> "NaN"]

\* the access_token string handed out by the n-th exchange
Tok(n) == [t |-> "token", n |-> n]

\* the ISO-8601 string of the instant ms
DateStr(ms) == [t |-> "datestring", ms |-> ms]

\* !value
Falsy(v) == v.t \in {"undefined", "null", "NaN"}

\* Date objects: a time value that is a number of ms, or NaN (Invalid Date)
DateOf(ms)  == [t |-> "date", time |-> Num(ms)]
InvalidDate == [t |-> "date", time |-> NaN]
IsValidDate(d) == d.t = "date" /\ d.time.t = "number"

----------------------------------------------------------------------------
(* Token Lifecycle Manager                                                 *)

bufferTime == 10 * 60 * 1000

\* !this.appKey || !this.appSecret || !this.refreshToken
CredentialsMissing(c) == ~c.appKey \/ ~c.appSecret \/ ~c.refreshToken

\* mutants of InsideBuffer: the boundary instant left out; a buffer twice
\* as wide
InsideBuffer_strict(exp, t) ==
  IF exp.time.t = "number" THEN t > exp.time.v - bufferTime ELSE FALSE

InsideBuffer_wide(exp, t) ==
  IF exp.time.t = "number" THEN t >= exp.time.v - 2 * bufferTime ELSE FALSE

\* Date.now() >= (this.tokenExpiresAt.getTime() - bufferTime); a comparison
\* with NaN is false.
InsideBuffer(exp, t) ==
  IF exp.time.t = "number" THEN t >= exp.time.v - bufferTime ELSE FALSE

\* the condition of refreshTokenIfNeeded
NeedsRefresh(tok, exp, t) ==
  Falsy(tok) \/ Falsy(exp) \/ InsideBuffer(exp, t)

\* What the authorization endpoint may answer.
ExpiresIn == {Num(n) : n \in Lifetimes} \cup {Undefined, Str(<<"s","o","o","n">>)}
AuthResponses ==
  {[status |-> s, access_token |-> Undefined, expires_in |-> Undefined] :
      s \in {"network_error", "http_error"}}
  \cup
  {[status |-> "ok", access_token |-> a, expires_in |-> e] :
      a \in {Str(<<"s","l",".","x">>), Undefined}, e \in ExpiresIn}

\* expires_in * 1000
TimesThousand(e) ==
  IF e.t = "number" THEN Num(e.v * 1000) ELSE NaN

\* new Date(Date.now() + ms)
DateFromNow(t, ms) ==
  IF ms.t = "number" THEN DateOf(t + ms.v) ELSE InvalidDate

\* mutant of refreshAccessTokenResult: the expiry is checked between the
\* two assignments
refreshAccessTokenResult_torn(resp, tok, exp, t, xid) ==
  IF resp.status # "ok"
  THEN [accessToken |-> tok, tokenExpiresAt |-> exp, outcome |-> "raise"]
  ELSE LET newTok == IF resp.access_token.t = "string" THEN Tok(xid)
                     ELSE resp.access_token
           newExp == DateFromNow(t, TimesThousand(resp.expires_in))
       IN IF IsValidDate(newExp)
          THEN [accessToken |-> newTok, tokenExpiresAt |-> newExp,
                outcome |-> "return"]
          ELSE [accessToken |-> newTok, tokenExpiresAt |-> exp,
                outcome |-> "raise"]

\* mutant of refreshAccessTokenResult: a failed exchange drops the cached
\* token
refreshAccessTokenResult_clears(resp, tok, exp, t, xid) ==
  IF resp.status # "ok"
  THEN [accessToken |-> Null, tokenExpiresAt |-> Null, outcome |-> "raise"]
  ELSE LET newTok == IF resp.access_token.t = "string" THEN Tok(xid)
                     ELSE resp.access_token
           newExp == DateFromNow(t, TimesThousand(resp.expires_in))
       IN [accessToken |-> newTok, tokenExpiresAt |-> newExp,
           outcome |-> IF IsValidDate(newExp) THEN "return" ELSE "raise"]

\* a success status with access_token missing, or expires_in missing or not
\* a number
Malformed(resp) ==
  /\ resp.status = "ok"
  /\ resp.access_token = Undefined \/ resp.expires_in.t # "number"

\* The continuation of refreshAccessToken after the POST resolves (lines
\* 42-54): the values left in this.accessToken / this.tokenExpiresAt and
\* whether the call returns or raises.  toISOString() of an Invalid Date
\* raises a RangeError, after both fields were assigned.
refreshAccessTokenResult(resp, tok, exp, t, xid) ==
  IF resp.status # "ok"
  THEN [accessToken |-> tok, tokenExpiresAt |-> exp, outcome |-> "raise"]
  ELSE LET newTok == IF resp.access_token.t = "string" THEN Tok(xid)
                     ELSE resp.access_token
           newExp == DateFromNow(t, TimesThousand(resp.expires_in))
       IN [accessToken |-> newTok, tokenExpiresAt |-> newExp,
           outcome |-> IF IsValidDate(newExp) THEN "return" ELSE "raise"]

----------------------------------------------------------------------------
(* Data: quote records, documents, paths                                   *)

\* quoteData as the route layer hands it over (a parsed JSON body; the route
\* checks only that id is present).
Quote(id, name, customer, created, transfers) ==
  [id              |-> Str(id),
   quote_name      |-> Str(name),
   customer_id     |-> customer,
   customer_email  |-> Str(<<"m">>),
   date_created    |-> created,
   data            |-> [t |-> "object", v |-> transfers],
   locations       |-> [t |-> "array", v |-> transfers],
   total_transfers |-> Num(transfers),
   pricing         |-> [t |-> "object", v |-> transfers]]

QuoteFields ==
  {"id", "quote_name", "customer_id", "customer_email", "date_created",
   "data", "locations", "total_transfers", "pricing"}

NoQuote == Undefined

\* obj.key of a parsed object: undefined when the key is absent
Get(obj, key) == IF key \in DOMAIN obj THEN obj[key] ELSE Undefined

\* /[^a-zA-Z0-9]/ restricted to the characters the model uses
Alphanumeric == {"A", "B", "O", "r", "d", "e", "1", "2", "3"}

\* (a variant that drops the characters instead of replacing them)
SafeName_drops(name) == SelectSeq(name, LAMBDA ch : ch \in Alphanumeric)

\* quote_name.replace(/[^a-zA-Z0-9]/g, '_')
SafeName(name) ==
  [i \in 1..Len(name) |-> IF name[i] \in Alphanumeric THEN name[i] ELSE "_"]

\* generateFileName: `${safeName}_${quoteData.id}.html`.  A file name is the
\* sequence of its characters; the fixed suffix is kept as one piece.
generateFileName(quoteData) ==
  SafeName(quoteData.quote_name.v) \o <<"_">> \o quoteData.id.v \o <<".html">>

\* `/dtf-quotes/${fileName}`
QuotesDir == "/dtf-quotes/"
FilePath(quoteData) == <<QuotesDir>> \o generateFileName(quoteData)

\* `/dtf-quotes/${quoteId}_metadata.json`
MetadataPath(id) == <<QuotesDir>> \o id.v \o <<"_metadata.json">>

\* (a variant with one logo for all customers)
LogoMetadataPath_shared(customerId) ==
  <<"/customer_logos/">> \o <<"logo_metadata.json">>

\* `/customer_logos/${customerId}/logo_metadata.json`
LogoMetadataPath(customerId) ==
  <<"/customer_logos/">> \o customerId.v \o <<"/">> \o <<"logo_metadata.json">>

\* `/customer_logos/${customerId}/${logoData.filename}`
LogoPath(customerId, filename) ==
  <<"/customer_logos/">> \o customerId.v \o <<"/">> \o filename.v

\* generateQuoteHtml: a document rendered from the fields of quoteData
generateQuoteHtml(quoteData) == [type |-> "html", of |-> quoteData]

\* (a variant that forgets the locations)
Metadata_nolocations(quoteData, filePath, t) ==
  [id              |-> quoteData.id,
   quote_name      |-> quoteData.quote_name,
   customer_id     |-> quoteData.customer_id,
   customer_email  |-> quoteData.customer_email,
   date_created    |-> quoteData.date_created,
   data            |-> quoteData.data,
   locations       |-> Undefined,
   total_transfers |-> quoteData.total_transfers,
   pricing         |-> quoteData.pricing,
   file_path       |-> Str(filePath),
   last_updated    |-> DateStr(t)]

\* the metadata object built by saveQuote (lines 95-107)
Metadata(quoteData, filePath, t) ==
  [id              |-> quoteData.id,
   quote_name      |-> quoteData.quote_name,
   customer_id     |-> quoteData.customer_id,
   customer_email  |-> quoteData.customer_email,
   date_created    |-> quoteData.date_created,
   data            |-> quoteData.data,
   locations       |-> quoteData.locations,
   total_transfers |-> quoteData.total_transfers,
   pricing         |-> quoteData.pricing,
   file_path       |-> Str(filePath),
   last_updated    |-> DateStr(t)]

\* JSON.stringify(obj, null, 2): keys holding undefined are left out, NaN is
\* written as null.
JSONStringify(obj) ==
  [type |-> "json",
   body |-> [k \in {key \in DOMAIN obj : obj[key] # Undefined} |->
               IF obj[k] = NaN THEN Null ELSE obj[k]]]

\* JSON.parse(text): raises a SyntaxError on text that is not JSON
\* (downloadFile, lines 860-869, is taken to answer the text that was
\* uploaded)
ParsesAsJSON(content) == content.type = "json"
JSONParse(content) == content.body

\* new Date(value): the instant of an ISO string or of a number, otherwise
\* (undefined, other text) an Invalid Date
NewDate(value) ==
  CASE value.t = "datestring" -> DateOf(value.ms)
    [] value.t = "number"     -> DateOf(value.v)
    [] OTHER                  -> InvalidDate

\* date.toLocaleDateString(): the calendar day of the instant
DayMs == 24 * 60 * 60 * 1000
ToLocaleDateString(date) ==
  IF IsValidDate(date)
  THEN [t |-> "localedate", day |-> date.time.v \div DayMs]
  ELSE Str(<<"Invalid Date">>)

----------------------------------------------------------------------------
(* The remote file store                                                   *)

\* files/upload with {path, mode, autorename}.  mode "overwrite" replaces
\* the document at path; mode "add" never replaces one: with autorename the
\* new document goes to a path of its own.
Put(files, path, content) ==
  [p \in DOMAIN files \cup {path} |-> IF p = path THEN content ELSE files[p]]

Renamed(path) == path \o <<" (1)">>

UploadEffect(files, path, content, mode, autorename) ==
  IF mode = "overwrite" \/ path \notin DOMAIN files
  THEN Put(files, path, content)
  ELSE IF autorename THEN Put(files, Renamed(path), content) ELSE files

\* (a variant in which a delete is acknowledged and the document stays)
Remove_keeps(files, path) == files

\* files/delete_v2 with {path}
Remove(files, path) == [p \in DOMAIN files \ {path} |-> files[p]]

\* files/list_folder with {path: '/dtf-quotes', recursive: false}: the
\* paths of the folder's entries
FolderEntries(files) == {p \in DOMAIN files : p[1] = QuotesDir}

\* entry.name.endsWith('_metadata.json')
IsMetadataName(path) == path[Len(path)] = "_metadata.json"

EmptyStore == [p \in {} |-> Undefined]


----------------------------------------------------------------------------
(* Tasks                                                                   *)

NoResult == [outcome |-> "none", type |-> "none"]

\* The frame of a task: where it is suspended (pc), the boundary operation
\* it runs (op) and the operation it called into (inner), its arguments and
\* locals, and a record of what its calls did: the exchanges issued by its
\* latest refreshTokenIfNeeded call and the number of the one it awaits
\* (xid), how refreshTokenIfNeeded (rtin) and refreshAccessToken (refresh)
\* ended and on which response (resp), and the remote storage calls issued
\* so far (calls), how many of them failed (failures), the files a listing
\* skipped, and how createSharedLink ended (share).
IdleTask ==
  [pc |-> "idle", op |-> "none", inner |-> "none",
   quote |-> NoQuote, id |-> Undefined, customer |-> Undefined,
   format |-> "json", logo |-> Undefined,
   token |-> Undefined, innerToken |-> Undefined,
   xid |-> 0, exchanges |-> 0, rtin |-> "none", refresh |-> "none",
   resp |-> Undefined, share |-> "none",
   calls |-> <<>>, path |-> <<>>, failures |-> 0, skipped |-> {},
   metadata |-> Undefined, files |-> <<>>, quotes |-> <<>>,
   result |-> NoResult]

Return(T, type, value) ==
  [T EXCEPT !.pc = "done",
            !.result = [outcome |-> "return", type |-> type, value |-> value]]

\* throw new Error(`Failed to ...: ${error.message}`)
Raise(T) ==
  [T EXCEPT !.pc = "done", !.result = [outcome |-> "raise", type |-> "error"]]

\* an awaited call to the remote store: the task is suspended at pc
Issue(T, pc, api, path, token) ==
  [T EXCEPT !.pc = pc, !.path = path,
            !.calls = Append(@, [api |-> api, path |-> path, token |-> token])]

\* (a variant in which every catch block raises again)
Throw_reraises(T) == Raise(T)

\* (a variant in which deleteQuote takes a quote it cannot load as "nothing
\* to delete")
Throw_lenient(T) ==
  IF T.inner \in {"loadCustomerLogo", "loadQuote"}
  THEN Return(T, "envelope", [success |-> TRUE])
  ELSE Raise(T)

\* The catch blocks an exception passes on its way out of the operation:
\* loadCustomerLogo turns every exception into null (lines 250-253), which
\* inside deleteCustomerLogo means "no logo" and ends it with success (lines
\* 266, 276); loadCustomerQuotes turns every exception into [] (lines
\* 187-190); every other operation re-raises.
Throw(T) ==
  CASE T.inner = "loadCustomerLogo" ->
         Return(T, "envelope", [success |-> TRUE])
    [] T.inner = "none" /\ T.op = "loadCustomerLogo" ->
         Return(T, "null", Null)
    [] T.inner = "none" /\ T.op = "loadCustomerQuotes" ->
         Return(T, "list", <<>>)
    [] OTHER -> Raise(T)

\* refreshTokenIfNeeded up to its await (lines 60-66) with refreshAccessToken
\* up to its POST (lines 23-40), on the token holder (tok, exp) at time t,
\* n exchanges having been posted before:
\*   "token": the token is fresh, nothing is awaited;
\*   "throw": a credential is missing, refreshAccessToken raised;
\*   "await": the exchange n+1 was posted.
TokenPhase(T, tok, exp, c, t, n) ==
  LET T1 == [T EXCEPT !.exchanges = 0, !.rtin = "pending",
                      !.refresh = "none", !.resp = Undefined]
  IN IF ~NeedsRefresh(tok, exp, t)
     THEN [kind |-> "token", T |-> [T1 EXCEPT !.rtin = "return"]]
     ELSE IF CredentialsMissing(c)
     THEN [kind |-> "throw",
           T |-> [T1 EXCEPT !.rtin = "raise", !.refresh = "raise"]]
     ELSE [kind |-> "await",
           T |-> [T1 EXCEPT !.pc = "exchange", !.exchanges = 1,
                            !.refresh = "pending", !.xid = n + 1]]

\* loadQuote / loadCustomerLogo after `const token = await
\* this.getValidToken()` returned tok, called from deleteQuote /
\* deleteCustomerLogo
AfterInnerToken(T, tok) ==
  LET T1 == [T EXCEPT !.innerToken = tok]
  IN CASE T.inner = "loadQuote" ->
            Issue(T1, "download_meta", "download", MetadataPath(T.id), tok)
       [] T.inner = "loadCustomerLogo" ->
            Issue(T1, "download_logo", "download",
                  LogoMetadataPath(T.customer), tok)

\* the getValidToken call of the operation called into
EnterInner(T, tok, exp, c, t, n) ==
  LET p == TokenPhase(T, tok, exp, c, t, n)
  IN CASE p.kind = "token" -> AfterInnerToken(p.T, tok)
       [] p.kind = "throw" -> Throw(p.T)
       [] p.kind = "await" -> p.T

\* a boundary operation after `const token = await this.getValidToken()`
\* returned tok, up to its first remote call
AfterOuterToken(T, tok, exp, c, t, n) ==
  LET T1 == [T EXCEPT !.token = tok]
  IN CASE T.op = "refreshTokenIfNeeded" -> Return(T1, "token", tok)
       [] T.op = "saveQuote" ->
            Issue(T1, "upload_html", "upload", FilePath(T.quote), tok)
       [] T.op = "loadQuote" ->
            Issue(T1, "download_meta", "download", MetadataPath(T.id), tok)
       [] T.op = "loadCustomerQuotes" ->
            Issue(T1, "list_folder", "list_folder", <<QuotesDir>>, tok)
       [] T.op = "deleteQuote" ->
            EnterInner([T1 EXCEPT !.inner = "loadQuote"], tok, exp, c, t, n)
       [] T.op = "saveCustomerLogo" ->
            Issue(T1, "upload_logo", "upload", LogoMetadataPath(T.customer),
                  tok)
       [] T.op = "loadCustomerLogo" ->
            Issue(T1, "download_logo", "download",
                  LogoMetadataPath(T.customer), tok)
       [] T.op = "deleteCustomerLogo" ->
            EnterInner([T1 EXCEPT !.inner = "loadCustomerLogo"],
                       tok, exp, c, t, n)

\* getValidToken returned this.accessToken (lines 74-77): continue where it
\* was called
AfterToken(T, tok, exp, c, t, n) ==
  IF T.inner = "none" THEN AfterOuterToken(T, tok, exp, c, t, n)
  ELSE AfterInnerToken(T, tok)

\* a boundary operation from its call to its first suspension
Enter(T, tok, exp, c, t, n) ==
  LET p == TokenPhase(T, tok, exp, c, t, n)
  IN CASE p.kind = "token" -> AfterOuterToken(p.T, tok, exp, c, t, n)
       [] p.kind = "throw" -> Throw(p.T)
       [] p.kind = "await" -> p.T

----------------------------------------------------------------------------
(* Listing: filter, sort, map                                              *)

\* metadata.customer_id == customerId.  customerId is a route parameter, a
\* string; the stored value is a string or absent, so no coercion applies.
LooseEquals(a, b) == a.t = b.t /\ a = b

\* the time value of new Date(quote.date_created)
CreatedTime(quote) == NewDate(Get(quote, "date_created")).time

\* (a, b) => new Date(b.date_created) - new Date(a.date_created) is a
\* consistent comparison unless it answers NaN (taken as 0, "equal") for an
\* element that lies between two elements it tells apart.
ConsistentComparison(quotes) ==
  ~ \E i, j, k \in 1..Len(quotes) :
      /\ CreatedTime(quotes[i]) = NaN
      /\ CreatedTime(quotes[j]) # NaN /\ CreatedTime(quotes[k]) # NaN
      /\ CreatedTime(quotes[j]) # CreatedTime(quotes[k])

IndexPermutations(n) ==
  {p \in [1..n -> 1..n] : \A i, j \in 1..n : i # j => p[i] # p[j]}

\* (a variant that sorts the oldest first)
Newer_older(a, b) ==
  /\ CreatedTime(a) # NaN /\ CreatedTime(b) # NaN
  /\ CreatedTime(b).v < CreatedTime(a).v

\* b sorts before a when the comparison is positive: b is newer
Newer(a, b) ==
  /\ CreatedTime(a) # NaN /\ CreatedTime(b) # NaN
  /\ CreatedTime(b).v > CreatedTime(a).v

\* quotes.sort(...): a stable sort under a consistent comparison; under an
\* inconsistent one the order is implementation-defined.
SortResults(quotes) ==
  LET n == Len(quotes)
      arranged(p) == [i \in 1..n |-> quotes[p[i]]]
      stable(p) == \A i, j \in 1..n : i < j =>
                      /\ ~Newer(quotes[p[i]], quotes[p[j]])
                      /\ (p[i] > p[j] => Newer(quotes[p[j]], quotes[p[i]]))
  IN IF ConsistentComparison(quotes)
     THEN {arranged(p) : p \in {q \in IndexPermutations(n) : stable(q)}}
     ELSE {arranged(p) : p \in IndexPermutations(n)}

\* quote => ({...quote, date_created: new Date(quote.date_created)
\*                                       .toLocaleDateString()})
Listed(quote) ==
  [k \in DOMAIN quote \cup {"date_created"} |->
     IF k = "date_created"
     THEN ToLocaleDateString(NewDate(Get(quote, "date_created")))
     ELSE quote[k]]

\* one turn of the loop of scanDropboxQuotes (lines 954-966) on the answer
\* to its download: a file that could not be fetched (~ok) or parsed is
\* skipped, a record of another customer is left out
\* (first a variant in which one failure ends the whole scan)
ScanFile_abort(T, ok, content) ==
  IF ok /\ ParsesAsJSON(content)
  THEN [T EXCEPT !.files = Tail(@),
                 !.quotes = IF LooseEquals(Get(JSONParse(content),
                                               "customer_id"), T.customer)
                            THEN Append(@, JSONParse(content)) ELSE @]
  ELSE [T EXCEPT !.files = <<>>, !.quotes = <<>>,
                 !.failures = @ + 1, !.skipped = @ \cup {T.path}]

ScanFile(T, ok, content) ==
  LET metadata == JSONParse(content)
  IN IF ok /\ ParsesAsJSON(content)
     THEN [T EXCEPT !.files = Tail(@),
                    !.quotes = IF LooseEquals(Get(metadata, "customer_id"),
                                              T.customer)
                               THEN Append(@, metadata) ELSE @]
     ELSE [T EXCEPT !.files = Tail(@),
                    !.failures = @ + 1, !.skipped = @ \cup {T.path}]

\* the end of scanDropboxQuotes and of loadCustomerQuotes (lines 968-971,
\* 182-185), the sort having answered `sorted`
FinishScan(T, sorted) ==
  Return(T, "list", [i \in 1..Len(sorted) |-> Listed(sorted[i])])

\* the loop of scanDropboxQuotes (lines 954-966) up to its next download
ScanNext(T, sorted) ==
  IF T.files = <<>> THEN FinishScan(T, sorted)
  ELSE Issue(T, "scan_download", "download", Head(T.files), T.token)


----------------------------------------------------------------------------
(* Inputs                                                                  *)

CustomerA == Str(<<"A">>)
CustomerB == Str(<<"B">>)

\* creation timestamps: two instants of one day and one of the next day
Day1 == DateStr(0)
Day1Later == DateStr(TickMs)
Day2 == DateStr(DayMs)

\* Two contents of quote 1, a newer quote of the same customer, and a third
\* quote that belongs to another customer or carries no creation date.
OrderNo1 == <<"O", "r", "d", "e", "r", " ", "#", "1">>
QuoteInputs ==
  {Quote(<<"1">>, OrderNo1, CustomerA, Day1, 50),
   Quote(<<"1">>, OrderNo1, CustomerA, Day1, 75),
   Quote(<<"2">>, <<"B">>, CustomerA, Day2, 50),
   Quote(<<"3">>, <<"B">>, CustomerB, Day1Later, 50),
   Quote(<<"3">>, <<"B">>, CustomerA, Undefined, 50)}

QuoteIds == {q.id : q \in QuoteInputs}

\* Two quotes with different ids whose file names are the same text:
\* "A" + "_" + "1_2" and "A_1" + "_" + "2".
CollidingInputs ==
  {Quote(<<"1", "_", "2">>, <<"A">>, CustomerA, Day1, 50),
   Quote(<<"2">>, <<"A", "_", "1">>, CustomerB, Day2, 75)}

CollidingIds == {q.id : q \in CollidingInputs}
AllIds == QuoteIds \cup CollidingIds
Customers == {CustomerA, CustomerB}
Formats == {"json", "html"}

LogoInputs ==
  {[filename |-> Str(<<"L">>), data |-> Num(n)] : n \in {1, 2}}

\* History of the saves (not state of the program): for a quote id, the
\* quoteData of the latest saveQuote that resolved with its envelope, and
\* whether it replaced a completed save of other content; NoSave once a
\* later operation changed a document of that id without completing a save.
\* After a deleteQuote of the id resolved, and until a save of the id
\* uploads again, `deleted` is the path of the rendered document it removed.
NoSave == [quote |-> NoQuote, replaced |-> FALSE, deleted |-> <<>>]

Completed(sv, quoteData) ==
  [sv EXCEPT ![quoteData.id] =
     [quote |-> quoteData,
      replaced |-> sv[quoteData.id].quote # NoQuote
                   /\ sv[quoteData.id].quote # quoteData,
      deleted |-> <<>>]]

Touched(sv, id) == [i \in DOMAIN sv |-> IF i = id THEN NoSave ELSE sv[i]]

Deleted(sv, id, path) ==
  [i \in DOMAIN sv |-> IF i = id THEN [NoSave EXCEPT !.deleted = path]
                       ELSE sv[i]]

\* a save of the id uploads: a deletion of the id is no longer the latest
Uploading(sv, id) == IF sv[id].deleted # <<>> THEN Touched(sv, id) ELSE sv

\* The start of a boundary operation: a fresh frame holding the arguments.
Frame(op, quote, id, customer, format, logo) ==
  [IdleTask EXCEPT !.op = op, !.quote = quote, !.id = id,
                   !.customer = customer, !.format = format, !.logo = logo]

----------------------------------------------------------------------------
(* Actions                                                                 *)

\* The service after its construction (lines 4-18): the credentials are
\* what the environment provides, no token is held; the remote store holds
\* files.
InitWith(files) ==
  /\ creds \in [appKey : BOOLEAN, appSecret : BOOLEAN, refreshToken : BOOLEAN]
  /\ accessToken = Null
  /\ tokenExpiresAt = Null
  /\ now = 0
  /\ nExchanges = 0
  /\ store = files
  /\ task = [t \in Tasks |-> IdleTask]
  /\ saved = [id \in AllIds |-> NoSave]
  /\ savedLogo = [c \in Customers |-> Null]

Init == InitWith(EmptyStore)

\* a remote store in which somebody else left a metadata file that is not
\* JSON
ForeignPath == MetadataPath(Str(<<"0">>))
ForeignStore == Put(EmptyStore, ForeignPath, [type |-> "text"])
ListingInit == InitWith(ForeignStore)

\* time passes between two handlers
Tick ==
  /\ now < MaxNow * TickMs
  /\ now' = now + TickMs
  /\ UNCHANGED <<creds, accessToken, tokenExpiresAt, nExchanges, store, task,
                 saved, savedLogo>>

\* A task calls a boundary operation and runs to its first suspension.
Call(t, frame) ==
  /\ task[t].pc \in {"idle", "done"}
  /\ LET T2 == Enter(frame, accessToken, tokenExpiresAt, creds, now,
                     nExchanges)
     IN /\ T2.pc = "exchange" => nExchanges < MaxExchanges
        /\ task' = [task EXCEPT ![t] = T2]
        /\ nExchanges' = IF T2.pc = "exchange" THEN nExchanges + 1
                         ELSE nExchanges
  /\ UNCHANGED <<creds, accessToken, tokenExpiresAt, now, store, saved,
                 savedLogo>>

\* the hourly timer and the start-up check
refreshTokenIfNeeded(t) ==
  Call(t, Frame("refreshTokenIfNeeded", NoQuote, Undefined, Undefined,
                "json", Undefined))

saveQuote(t, quoteData) ==
  Call(t, Frame("saveQuote", quoteData, quoteData.id, Undefined, "json",
                Undefined))

loadQuote(t, quoteId, format) ==
  Call(t, Frame("loadQuote", NoQuote, quoteId, Undefined, format, Undefined))

loadCustomerQuotes(t, customerId) ==
  Call(t, Frame("loadCustomerQuotes", NoQuote, Undefined, customerId, "json",
                Undefined))

deleteQuote(t, quoteId, customerId) ==
  Call(t, Frame("deleteQuote", NoQuote, quoteId, customerId, "json",
                Undefined))

saveCustomerLogo(t, customerId, logoData) ==
  Call(t, Frame("saveCustomerLogo", NoQuote, Undefined, customerId, "json",
                logoData))

loadCustomerLogo(t, customerId) ==
  Call(t, Frame("loadCustomerLogo", NoQuote, Undefined, customerId, "json",
                Undefined))

deleteCustomerLogo(t, customerId) ==
  Call(t, Frame("deleteCustomerLogo", NoQuote, Undefined, customerId, "json",
                Undefined))

\* The POST to oauth2/token resolves: the rest of refreshAccessToken, the
\* return through refreshTokenIfNeeded and getValidToken, and the operation
\* up to its next suspension.
AuthResponse(t, resp) ==
  /\ task[t].pc = "exchange"
  /\ LET T == task[t]
         r == refreshAccessTokenResult(resp, accessToken, tokenExpiresAt,
                                       now, T.xid)
         T1 == [T EXCEPT !.resp = resp, !.refresh = r.outcome,
                         !.rtin = r.outcome]
         T2 == IF r.outcome = "raise" THEN Throw(T1)
               ELSE AfterToken(T1, r.accessToken, r.tokenExpiresAt, creds,
                               now, nExchanges)
     IN /\ T2.pc = "exchange" => nExchanges < MaxExchanges
        /\ accessToken' = r.accessToken
        /\ tokenExpiresAt' = r.tokenExpiresAt
        /\ task' = [task EXCEPT ![t] = T2]
        /\ nExchanges' = IF T2.pc = "exchange" THEN nExchanges + 1
                         ELSE nExchanges
  /\ UNCHANGED <<creds, now, store, saved, savedLogo>>


\* (a variant in which the first document written to a path stays)
uploadFile_keep(files, path, content) ==
  UploadEffect(files, path, content, "add", FALSE)

\* (a variant that never replaces a document)
uploadFile_add(files, path, content) ==
  UploadEffect(files, path, content, "add", TRUE)

\* uploadFile (lines 841-855): mode 'overwrite', autorename false
uploadFile(files, path, content) ==
  UploadEffect(files, path, content, "overwrite", FALSE)

\* the path argument of a remote call, as text
PathOf(value) == IF value.t = "string" THEN value.v ELSE <<"undefined">>

\* the envelope saveQuote resolves to (lines 132-139)
SaveEnvelope(T, shareUrl) ==
  [success |-> TRUE, quote_id |-> T.quote.id,
   file_path |-> Str(FilePath(T.quote)), download_url |-> shareUrl,
   metadata |-> T.metadata]

\* response.data.url.replace('?dl=0', '?raw=1')
ShareUrl(path) == [t |-> "url", path |-> path, query |-> "?raw=1"]

\* a remote storage call failed: the exception takes its way out
Fail(T) == Throw([T EXCEPT !.failures = @ + 1])

\* A response after which task t is in frame T2, the remote store holds
\* files and the history of saves is sv.
Step(t, T2, files, sv) ==
  /\ task' = [task EXCEPT ![t] = T2]
  /\ store' = files
  /\ saved' = sv
  /\ UNCHANGED <<creds, accessToken, tokenExpiresAt, now, nExchanges,
                 savedLogo>>

\* The same for a response to a logo operation, the history of logos
\* becoming lg.
StepLogo(t, T2, files, lg) ==
  /\ task' = [task EXCEPT ![t] = T2]
  /\ store' = files
  /\ savedLogo' = lg
  /\ UNCHANGED <<creds, accessToken, tokenExpiresAt, now, nExchanges, saved>>

\* saveQuote after createSharedLink raised (lines 128-130): the failure is
\* logged and shareUrl stays null
ShareFailed_raises(T) == Raise([T EXCEPT !.share = "failed"])

ShareFailed(T) ==
  Return([T EXCEPT !.share = "failed"], "envelope", SaveEnvelope(T, Null))

\* saveQuote: the upload of the rendered document resolves (lines 92-122)
UploadHtmlResponse(t, ok) ==
  /\ task[t].pc = "upload_html"
  /\ LET T == task[t]
         metadata == Metadata(T.quote, FilePath(T.quote), now)
     IN IF ok
        THEN Step(t, Issue([T EXCEPT !.metadata = metadata], "upload_meta",
                           "upload", MetadataPath(T.quote.id), T.token),
                  uploadFile(store, T.path, generateQuoteHtml(T.quote)),
                  Uploading(saved, T.id))
        ELSE Step(t, Fail(T), store, saved)

\* saveQuote: the upload of the metadata resolves (lines 122-127)
UploadMetaResponse(t, ok) ==
  /\ task[t].pc = "upload_meta"
  /\ LET T == task[t]
     IN IF ok
        THEN Step(t, Issue(T, "share_create", "create_shared_link",
                           FilePath(T.quote), T.token),
                  uploadFile(store, T.path, JSONStringify(T.metadata)),
                  saved)
        ELSE Step(t, Fail(T), store, Touched(saved, T.id))

\* createSharedLink: create_shared_link_with_settings resolves (lines
\* 893-921); on an error the existing links are listed
ShareCreateResponse(t, ok) ==
  /\ task[t].pc = "share_create"
  /\ LET T == task[t]
     IN IF ok
        THEN Step(t, Return([T EXCEPT !.share = "created"], "envelope",
                            SaveEnvelope(T, ShareUrl(FilePath(T.quote)))),
                  store, Completed(saved, T.quote))
        ELSE Step(t, Issue([T EXCEPT !.failures = @ + 1], "share_list",
                           "list_shared_links", FilePath(T.quote), T.token),
                  store, saved)

\* createSharedLink: list_shared_links resolves (lines 923-930); without an
\* existing link the first error is raised again, and saveQuote keeps
\* shareUrl null (lines 125-130)
ShareListResponse(t, answer) ==
  /\ task[t].pc = "share_list"
  /\ LET T == task[t]
     IN IF answer = "links"
        THEN Step(t, Return([T EXCEPT !.share = "listed"], "envelope",
                            SaveEnvelope(T, ShareUrl(FilePath(T.quote)))),
                  store, Completed(saved, T.quote))
        ELSE Step(t, ShareFailed([T EXCEPT !.failures =
                                        IF answer = "error" THEN @ + 1
                                        ELSE @]),
                  store, Completed(saved, T.quote))

\* loadQuote: the download of the metadata resolves (lines 155-163); in
\* deleteQuote the metadata goes on to the first delete (lines 201-204)
DownloadMetaResponse(t, ok) ==
  /\ task[t].pc = "download_meta"
  /\ ok => task[t].path \in DOMAIN store
  /\ LET T == task[t]
         content == store[T.path]
         metadata == JSONParse(content)
         T1 == [T EXCEPT !.metadata = metadata, !.inner = "none"]
     IN IF ok /\ ParsesAsJSON(content)
        THEN IF T.inner = "loadQuote"
             THEN Step(t, Issue(T1, "delete_html", "delete",
                                PathOf(Get(metadata, "file_path")), T.token),
                       store, saved)
             ELSE IF T.format = "json"
             THEN Step(t, Return(T1, "metadata", metadata), store, saved)
             ELSE Step(t, Issue(T1, "download_html", "download",
                                PathOf(Get(metadata, "file_path")), T.token),
                       store, saved)
        ELSE Step(t, Fail(T), store, saved)

\* loadQuote: the download of the rendered document resolves (lines 163-164)
DownloadHtmlResponse(t, ok) ==
  /\ task[t].pc = "download_html"
  /\ ok => task[t].path \in DOMAIN store
  /\ LET T == task[t]
     IN IF ok THEN Step(t, Return(T, "content", store[T.path]), store, saved)
        ELSE Step(t, Fail(T), store, saved)

\* scanDropboxQuotes: list_folder resolves (lines 939-954); the metadata
\* entries come in the order the remote store lists them.  A failed listing
\* ends with [] (lines 973-976).
ListFolderResponse(t, ok) ==
  /\ task[t].pc = "list_folder"
  /\ LET T == task[t]
         metadataFiles == {p \in FolderEntries(store) : IsMetadataName(p)}
     IN IF ok
        THEN \E order \in [1..Cardinality(metadataFiles) -> metadataFiles] :
               /\ \A i, j \in DOMAIN order : i # j => order[i] # order[j]
               /\ Step(t, ScanNext([T EXCEPT !.files = order,
                                             !.quotes = <<>>], <<>>),
                       store, saved)
        ELSE Step(t, Return([T EXCEPT !.failures = @ + 1], "list", <<>>),
                  store, saved)

\* scanDropboxQuotes: the download of one metadata file resolves (lines
\* 955-971); a file that cannot be fetched or parsed is skipped
ScanDownloadResponse(t, ok) ==
  /\ task[t].pc = "scan_download"
  /\ ok => task[t].path \in DOMAIN store
  /\ LET T == task[t]
         T1 == ScanFile(T, ok, IF ok THEN store[T.path] ELSE Undefined)
     IN \E sorted \in (IF T1.files = <<>> THEN SortResults(T1.quotes)
                       ELSE {<<>>}) :
          Step(t, ScanNext(T1, sorted), store, saved)

\* deleteQuote: the delete of the rendered document resolves (lines 204-208)
DeleteHtmlResponse(t, ok) ==
  /\ task[t].pc = "delete_html"
  /\ ok => task[t].path \in DOMAIN store
  /\ LET T == task[t]
     IN IF ok
        THEN Step(t, Issue(T, "delete_meta", "delete", MetadataPath(T.id),
                           T.token),
                  Remove(store, T.path), Touched(saved, T.id))
        ELSE Step(t, Fail(T), store, saved)

\* deleteQuote: the delete of the metadata resolves (lines 208-214)
DeleteMetaResponse(t, ok) ==
  /\ task[t].pc = "delete_meta"
  /\ ok => task[t].path \in DOMAIN store
  /\ LET T == task[t]
     IN IF ok
        THEN Step(t, Return(T, "envelope",
                            [success |-> TRUE, deleted_quote_id |-> T.id]),
                  Remove(store, T.path),
                  Deleted(saved, T.id, PathOf(Get(T.metadata, "file_path"))))
        ELSE Step(t, Fail(T), store, saved)

\* saveCustomerLogo: the upload of the logo metadata resolves (lines 230-232)
UploadLogoResponse(t, ok) ==
  /\ task[t].pc = "upload_logo"
  /\ LET T == task[t]
     IN IF ok
        THEN StepLogo(t, Return(T, "logo", T.logo),
                      uploadFile(store, T.path, JSONStringify(T.logo)),
                      [savedLogo EXCEPT ![T.customer] = T.logo])
        ELSE StepLogo(t, Fail(T), store, savedLogo)

\* loadCustomerLogo: the download of the logo metadata resolves (lines
\* 246-249); in deleteCustomerLogo a logo that was found goes on to the
\* first delete (lines 264-269)
DownloadLogoResponse(t, ok) ==
  /\ task[t].pc = "download_logo"
  /\ ok => task[t].path \in DOMAIN store
  /\ LET T == task[t]
         content == store[T.path]
         logoData == JSONParse(content)
         T1 == [T EXCEPT !.inner = "none"]
     IN IF ok /\ ParsesAsJSON(content)
        THEN IF T.inner = "loadCustomerLogo"
             THEN StepLogo(t, Issue(T1, "delete_logo_file", "delete",
                                    LogoPath(T.customer,
                                             Get(logoData, "filename")),
                                    T.token),
                           store, savedLogo)
             ELSE StepLogo(t, Return(T1, "logo", logoData), store, savedLogo)
        ELSE StepLogo(t, Fail(T), store, savedLogo)

\* deleteCustomerLogo: the delete of the logo file resolves (lines 269-273)
DeleteLogoFileResponse(t, ok) ==
  /\ task[t].pc = "delete_logo_file"
  /\ ok => task[t].path \in DOMAIN store
  /\ LET T == task[t]
     IN IF ok
        THEN StepLogo(t, Issue(T, "delete_logo_meta", "delete",
                               LogoMetadataPath(T.customer), T.token),
                      Remove(store, T.path), savedLogo)
        ELSE StepLogo(t, Fail(T), store, savedLogo)

\* deleteCustomerLogo: the delete of the logo metadata resolves (lines
\* 273-276)
DeleteLogoMetaResponse(t, ok) ==
  /\ task[t].pc = "delete_logo_meta"
  /\ ok => task[t].path \in DOMAIN store
  /\ LET T == task[t]
     IN IF ok
        THEN StepLogo(t, Return(T, "envelope", [success |-> TRUE]),
                      Remove(store, T.path),
                      [savedLogo EXCEPT ![T.customer] = Null])
        ELSE StepLogo(t, Fail(T), store, savedLogo)

----------------------------------------------------------------------------
(* Specifications                                                          *)

\* the token holder under the timer, the start-up check and concurrent
\* requests that only need a token
TokenNext ==
  \/ Tick
  \/ \E t \in Tasks : refreshTokenIfNeeded(t)
  \/ \E t \in Tasks : loadQuote(t, Str(<<"1">>), "json")
  \/ \E t \in Tasks, resp \in AuthResponses : AuthResponse(t, resp)
  \/ \E t \in Tasks : loadCustomerQuotes(t, CustomerA)
  \/ \E t \in Tasks, ok \in BOOLEAN : DownloadMetaResponse(t, ok)
  \/ \E t \in Tasks, ok \in BOOLEAN : ListFolderResponse(t, ok)

\* what the authorization endpoint answers in the specification of the
\* gateway: a token that stays outside the refresh buffer (the failures of
\* the exchange are the subject of TokenSpec)
GatewayAuthResponses ==
  {r \in AuthResponses :
     /\ r.status = "ok" /\ ~Malformed(r)
     /\ ~InsideBuffer(DateFromNow(0, TimesThousand(r.expires_in)), 0)}

\* the tasks that run gateway operations one after the other
Requests == {"t1"}

\* the storage gateway: every boundary operation, every remote response
Next ==
  \/ \E t \in Requests, quoteData \in QuoteInputs : saveQuote(t, quoteData)
  \/ \E t \in Requests, id \in QuoteIds, format \in Formats :
       loadQuote(t, id, format)
  \/ \E t \in Requests, c \in Customers : loadCustomerQuotes(t, c)
  \/ \E t \in Requests, id \in QuoteIds, c \in {CustomerB, Null} :
       deleteQuote(t, id, c)
  \/ \E t \in Requests, resp \in GatewayAuthResponses : AuthResponse(t, resp)
  \/ \E t \in Requests, ok \in BOOLEAN :
       \/ UploadHtmlResponse(t, ok)
       \/ UploadMetaResponse(t, ok)
       \/ ShareCreateResponse(t, ok)
       \/ DownloadMetaResponse(t, ok)
       \/ DownloadHtmlResponse(t, ok)
       \/ ListFolderResponse(t, ok)
       \/ ScanDownloadResponse(t, ok)
       \/ DeleteHtmlResponse(t, ok)
       \/ DeleteMetaResponse(t, ok)
  \/ \E t \in Requests, answer \in {"links", "empty", "error"} :
       ShareListResponse(t, answer)

Spec == Init /\ [][Next]_vars

\* the listing of a customer's quotes over a store that holds a foreign file
ListingInputs ==
  {q \in QuoteInputs : q.total_transfers = Num(50) /\ q.id # Str(<<"3">>)}

ListingNext ==
  \/ \E t \in Requests, quoteData \in ListingInputs : saveQuote(t, quoteData)
  \/ \E t \in Requests, c \in Customers : loadCustomerQuotes(t, c)
  \/ \E t \in Requests, resp \in GatewayAuthResponses : AuthResponse(t, resp)
  \/ \E t \in Requests, ok \in BOOLEAN :
       \/ UploadHtmlResponse(t, ok)
       \/ UploadMetaResponse(t, ok)
       \/ ShareCreateResponse(t, ok)
       \/ ListFolderResponse(t, ok)
       \/ ScanDownloadResponse(t, ok)
  \/ \E t \in Requests, answer \in {"links", "empty", "error"} :
       ShareListResponse(t, answer)

ListingSpec == ListingInit /\ [][ListingNext]_vars

\* the logo of a customer; the logo file itself is put into the store by
\* somebody else (the service uploads only the logo metadata)
LogoFileStore ==
  Put(EmptyStore, LogoPath(CustomerA, Str(<<"L">>)), [type |-> "image"])
LogoInit == InitWith(LogoFileStore)

LogoNext ==
  \/ \E t \in Requests, c \in Customers, logoData \in LogoInputs :
       saveCustomerLogo(t, c, logoData)
  \/ \E t \in Requests, c \in Customers : loadCustomerLogo(t, c)
  \/ \E t \in Requests, c \in Customers : deleteCustomerLogo(t, c)
  \/ \E t \in Requests, resp \in AuthResponses : AuthResponse(t, resp)
  \/ \E t \in Requests, ok \in BOOLEAN :
       \/ UploadLogoResponse(t, ok)
       \/ DownloadLogoResponse(t, ok)
       \/ DeleteLogoFileResponse(t, ok)
       \/ DeleteLogoMetaResponse(t, ok)

LogoSpec == LogoInit /\ [][LogoNext]_vars

\* quotes whose file names collide, handled by one caller
CollisionNext ==
  \/ \E t \in Requests, quoteData \in CollidingInputs : saveQuote(t, quoteData)
  \/ \E t \in Requests, id \in CollidingIds : loadQuote(t, id, "html")
  \/ \E t \in Requests, id \in CollidingIds : deleteQuote(t, id, Null)
  \/ \E t \in Requests, resp \in GatewayAuthResponses : AuthResponse(t, resp)
  \/ \E t \in Requests, ok \in BOOLEAN :
       \/ UploadHtmlResponse(t, ok)
       \/ UploadMetaResponse(t, ok)
       \/ ShareCreateResponse(t, ok)
       \/ DownloadMetaResponse(t, ok)
       \/ DownloadHtmlResponse(t, ok)
       \/ DeleteHtmlResponse(t, ok)
       \/ DeleteMetaResponse(t, ok)
  \/ \E t \in Requests : ShareListResponse(t, "empty")

CollisionSpec == Init /\ [][CollisionNext]_vars

\* two requests that save the same quote (same id, same name) at the same
\* time, each with its own content
RaceInputs == {q \in QuoteInputs : q.id = Str(<<"1">>)}

RaceNext ==
  \/ \E t \in Tasks, quoteData \in RaceInputs : saveQuote(t, quoteData)
  \/ \E t \in Tasks, resp \in GatewayAuthResponses : AuthResponse(t, resp)
  \/ \E t \in Tasks, ok \in BOOLEAN :
       \/ UploadHtmlResponse(t, ok)
       \/ UploadMetaResponse(t, ok)
       \/ ShareCreateResponse(t, ok)
  \/ \E t \in Tasks, answer \in {"links", "empty"} :
       ShareListResponse(t, answer)

RaceSpec == Init /\ [][RaceNext]_vars

\* saves that update a quote under another quote_name, and deletes, by one
\* caller; every remote call succeeds when it can: an upload always, a
\* download or delete when its path exists
RenameInputs ==
  {Quote(id, name, CustomerA, Day1, 50) :
     id \in {<<"1">>, <<"2">>}, name \in {<<"A">>, <<"B">>}}

RenameIds == {q.id : q \in RenameInputs}

Exists(t) == task[t].path \in DOMAIN store

RenameNext ==
  \/ \E t \in Requests, quoteData \in RenameInputs : saveQuote(t, quoteData)
  \/ \E t \in Requests, id \in RenameIds :
       MetadataPath(id) \in DOMAIN store /\ deleteQuote(t, id, Null)
  \/ \E t \in Requests, resp \in GatewayAuthResponses : AuthResponse(t, resp)
  \/ \E t \in Requests :
       \/ UploadHtmlResponse(t, TRUE)
       \/ UploadMetaResponse(t, TRUE)
       \/ ShareCreateResponse(t, TRUE)
       \/ DownloadMetaResponse(t, Exists(t))
       \/ DeleteHtmlResponse(t, Exists(t))
       \/ DeleteMetaResponse(t, Exists(t))

RenameSpec == Init /\ [][RenameNext]_vars

TokenSpec == Init /\ [][TokenNext]_vars


----------------------------------------------------------------------------
(* Properties of the Token Lifecycle Manager                               *)

TenMinutes == 10 * 60 * 1000

\* "accessToken is unset, tokenExpiresAt is unset, or now >= tokenExpiresAt
\* - 10 minutes"
StaleState(tok, exp, t) ==
  \/ tok \in {Null, Undefined}
  \/ exp \in {Null, Undefined}
  \/ IsValidDate(exp) /\ t >= exp.time.v - TenMinutes

\* "accessToken is set and now < tokenExpiresAt - 10 minutes"
FreshState(tok, exp, t) ==
  /\ tok \notin {Null, Undefined}
  /\ IsValidDate(exp) /\ t < exp.time.v - TenMinutes

\* task t calls an operation in this step: refreshTokenIfNeeded checks the
\* token holder as it is before the step
Calls(t) == task[t].pc \in {"idle", "done"} /\ task'[t] # task[t]

\* the exchange task t awaits resolves in this step
Resolves(t) == task[t].pc = "exchange" /\ task'[t] # task[t]

\* C1: a refreshTokenIfNeeded call that finds the token holder stale posts
\* exactly one exchange to the authorization endpoint and awaits it (with a
\* credential missing it raises instead, without an exchange), and when that
\* exchange resolves the call ends, by return or by raise, having issued
\* that one exchange and no other.
C1_StaleCallRefreshesOnce ==
  [][\A t \in Tasks :
       /\ (Calls(t) /\ StaleState(accessToken, tokenExpiresAt, now)) =>
            \/ /\ task'[t].pc = "exchange" /\ task'[t].exchanges = 1
               /\ task'[t].rtin = "pending"
               /\ nExchanges' = nExchanges + 1
            \/ /\ CredentialsMissing(creds)
               /\ task'[t].rtin = "raise" /\ task'[t].exchanges = 0
               /\ nExchanges' = nExchanges
       /\ Resolves(t) =>
            /\ task'[t].rtin \in {"return", "raise"}
            /\ task'[t].exchanges = 1
            /\ nExchanges' = nExchanges]_vars

\* a call found the holder stale (by expiry), refreshed once and returned
C1_Witness ==
  \E t \in Tasks :
    /\ task[t].rtin = "return" /\ task[t].exchanges = 1
    /\ task[t].xid > 1 /\ task[t].pc = "done"

\* C2: a refreshTokenIfNeeded call that finds accessToken set and now <
\* tokenExpiresAt - 10 minutes issues no exchange, leaves accessToken and
\* tokenExpiresAt as they were and returns the current token.
C2_FreshCallIsNoOp ==
  [][\A t \in Tasks :
       (Calls(t) /\ FreshState(accessToken, tokenExpiresAt, now)) =>
         /\ task'[t].rtin = "return" /\ task'[t].exchanges = 0
         /\ task'[t].pc # "exchange"
         /\ task'[t].token = accessToken
         /\ nExchanges' = nExchanges
         /\ accessToken' = accessToken
         /\ tokenExpiresAt' = tokenExpiresAt]_vars

\* a call returned the cached token without an exchange
C2_Witness ==
  \E t \in Tasks :
    /\ task[t].op = "refreshTokenIfNeeded" /\ task[t].pc = "done"
    /\ task[t].rtin = "return" /\ task[t].exchanges = 0
    /\ task[t].result.outcome = "return"
    /\ task[t].result.value = accessToken
    /\ FreshState(accessToken, tokenExpiresAt, now)

\* getValidToken returns a token to task t in this step
ReturnsToken(t) ==
  /\ Calls(t) \/ Resolves(t)
  /\ task'[t].rtin = "return"
  /\ task'[t].token.t = "token"

\* C3: whenever getValidToken returns a token, at that moment now <
\* tokenExpiresAt - 10 minutes, for every lifetime the endpoint answers with.
C3_ReturnedTokenOutsideBuffer ==
  [][\A t \in Tasks :
       ReturnsToken(t) =>
         /\ task'[t].token = accessToken'
         /\ FreshState(accessToken', tokenExpiresAt', now')]_vars

\* the failed exchange of task t resolves in this step
FailedExchange(t) ==
  Resolves(t) /\ task'[t].resp.status \in {"network_error", "http_error"}

\* C4: when the exchange fails with a network error or a non-success status,
\* refreshAccessToken raises and accessToken and tokenExpiresAt keep the
\* values they had.
C4_FailedRefreshKeepsToken ==
  [][\A t \in Tasks :
       FailedExchange(t) =>
         /\ task'[t].refresh = "raise"
         /\ task'[t].rtin = "raise"
         /\ accessToken' = accessToken
         /\ tokenExpiresAt' = tokenExpiresAt]_vars

\* a refresh failed while a token inside its validity window, refreshed
\* meanwhile by the other task, stays cached
C4_Witness ==
  \E t \in Tasks :
    /\ task[t].refresh = "raise"
    /\ task[t].resp # Undefined
    /\ task[t].resp.status = "http_error"
    /\ FreshState(accessToken, tokenExpiresAt, now)

\* C5: when the endpoint answers a success status with a malformed body,
\* refreshAccessToken raises and does not change accessToken or
\* tokenExpiresAt.
C5_MalformedBodyKeepsToken ==
  [][\A t \in Tasks :
       (Resolves(t) /\ Malformed(task'[t].resp)) =>
         /\ task'[t].refresh = "raise"
         /\ accessToken' = accessToken
         /\ tokenExpiresAt' = tokenExpiresAt]_vars

\* C19: every response of the authorization endpoint with a success status
\* overwrites the shared token and expiry with its own, a valid token and
\* the expiry that follows from its lifetime; so once every exchange has
\* resolved, the holder has those of the success that resolved last.
C19_LastResponseWins ==
  [][\A t \in Tasks :
       (Resolves(t) /\ task'[t].resp.status = "ok") =>
         /\ accessToken' = Tok(task[t].xid)
         /\ IsValidDate(tokenExpiresAt')
         /\ tokenExpiresAt' =
              DateOf(now + 1000 * task'[t].resp.expires_in.v)]_vars

\* C20: accessToken and tokenExpiresAt start both unset, and every step
\* that changes one of them is the handling of one refresh response, which
\* leaves in both what that response gave: no state pairs the token of
\* one response with the expiry of another.
C20_NoTornTokenHolder ==
  /\ accessToken = Null /\ tokenExpiresAt = Null
  /\ [][(accessToken' # accessToken \/ tokenExpiresAt' # tokenExpiresAt) =>
         \E t \in Tasks :
           /\ Resolves(t) /\ task'[t].resp.status = "ok"
           /\ accessToken' =
                (IF task'[t].resp.access_token.t = "string"
                 THEN Tok(task[t].xid) ELSE task'[t].resp.access_token)
           /\ tokenExpiresAt' =
                DateFromNow(now, TimesThousand(task'[t].resp.expires_in))]_vars

\* the holder has the token and expiry of a later exchange while an earlier
\* exchange is still in flight
C20_Witness ==
  \E t \in Tasks :
    /\ task[t].pc = "exchange"
    /\ accessToken.t = "token" /\ accessToken.n > task[t].xid
    /\ IsValidDate(tokenExpiresAt)

----------------------------------------------------------------------------
(* Properties of the Remote Storage Gateway                                *)

BoundaryOperations ==
  {"saveQuote", "loadQuote", "loadCustomerQuotes", "deleteQuote",
   "saveCustomerLogo", "loadCustomerLogo", "deleteCustomerLogo"}

\* C6: a boundary operation that cannot obtain a valid token ends with an
\* error and has issued no remote storage call.
C6_NoTokenMeansError ==
  \A t \in Tasks :
    (/\ task[t].pc = "done" /\ task[t].op \in BoundaryOperations
     /\ task[t].rtin = "raise") =>
      /\ task[t].result.outcome = "raise"
      /\ task[t].calls = <<>>

\* the fields of record that saveQuote copies from quoteData, and where it
\* put the document
SameRecord(record, quoteData) ==
  /\ \A f \in QuoteFields : Get(record, f) = quoteData[f]
  /\ Get(record, "file_path") = Str(FilePath(quoteData))
  /\ DOMAIN record \subseteq QuoteFields \cup {"file_path", "last_updated"}

\* task t has loaded, in the given format, a quote whose latest save
\* completed and was not touched since
Loaded(t, format) ==
  /\ task[t].pc = "done" /\ task[t].op = "loadQuote"
  /\ task[t].format = format
  /\ task[t].result.outcome = "return"
  /\ saved[task[t].id].quote # NoQuote

\* C7: after a saveQuote of a quote succeeded and nothing else touched its
\* id, loadQuote(id, 'json') returns a record equal to the saved one in
\* every field but last_updated.
C7_LoadReturnsSavedRecord ==
  \A t \in Tasks :
    Loaded(t, "json") =>
      SameRecord(task[t].result.value, saved[task[t].id].quote)

C7_Witness ==
  \E t \in Tasks :
    /\ Loaded(t, "json")
    /\ Get(task[t].result.value, "last_updated") = DateStr(now)
    /\ task[t].result.value.locations = saved[task[t].id].quote.locations

\* the metadata documents the store holds for a quote id
MetadataDocs(id) ==
  {p \in DOMAIN store :
     store[p].type = "json" /\ Get(store[p].body, "id") = id}

\* no operation is underway
Quiescent == \A t \in Tasks : task[t].pc \in {"idle", "done"}

\* C8: after two successful saveQuote calls, one after the other, with the
\* same id and different content, a load returns the second content and the
\* store holds exactly one metadata document for the id.
C8_SecondSaveReplacesFirst ==
  /\ \A id \in QuoteIds :
        /\ Cardinality(MetadataDocs(id)) <= 1
        /\ (saved[id].replaced /\ Quiescent) =>
              /\ MetadataDocs(id) = {MetadataPath(id)}
              /\ SameRecord(JSONParse(store[MetadataPath(id)]),
                            saved[id].quote)
  /\ \A t \in Tasks :
        /\ (Loaded(t, "json") /\ saved[task[t].id].replaced) =>
              SameRecord(task[t].result.value, saved[task[t].id].quote)
        /\ (Loaded(t, "html") /\ saved[task[t].id].replaced) =>
              task[t].result.value =
                generateQuoteHtml(saved[task[t].id].quote)

C8_Witness ==
  \E t \in Tasks :
    /\ Loaded(t, "json") /\ saved[task[t].id].replaced
    /\ Cardinality(MetadataDocs(task[t].id)) = 1

\* the stored metadata records whose customer_id equals c
StoredRecord(id) == JSONParse(store[MetadataPath(id)])

Matching(c) ==
  {id \in QuoteIds :
     /\ MetadataPath(id) \in DOMAIN store
     /\ ParsesAsJSON(store[MetadataPath(id)])
     /\ LooseEquals(Get(StoredRecord(id), "customer_id"), c)}

\* task t has listed the quotes of a customer, every remote call succeeding
Listing(t) ==
  /\ task[t].pc = "done" /\ task[t].op = "loadCustomerQuotes"
  /\ task[t].rtin = "return" /\ task[t].failures = 0

\* the list holds the records of exactly the ids in ids, each once
ListsExactly(list, ids) ==
  /\ Len(list) = Cardinality(ids)
  /\ {list[i].id : i \in DOMAIN list} = ids
  /\ \A i \in DOMAIN list : list[i] = Listed(StoredRecord(list[i].id))

HasCreationTime(id) == CreatedTime(StoredRecord(id)) # NaN

\* of two listed records with a creation timestamp, the newer comes first
NewestFirst(list) ==
  \A i, j \in DOMAIN list :
    (/\ i < j /\ HasCreationTime(list[i].id)
     /\ HasCreationTime(list[j].id)) =>
      CreatedTime(StoredRecord(list[i].id)).v >=
        CreatedTime(StoredRecord(list[j].id)).v

MatchingFiles(c) ==
  {p \in FolderEntries(store) :
     /\ IsMetadataName(p) /\ ParsesAsJSON(store[p])
     /\ LooseEquals(Get(JSONParse(store[p]), "customer_id"), c)}

Finished(t, op) == task[t].pc = "done" /\ task[t].op = op

\* task t, inside the given operation, gets the answer to the remote call
\* it awaits at pc
Answered(t, op, pc) ==
  /\ task[t].op = op /\ task[t].pc = pc /\ task'[t] # task[t]

DeleteCalls(T) == {i \in DOMAIN T.calls : T.calls[i].api = "delete"}

\* C11: a deleteQuote of an id whose metadata document does not exist ends
\* with an error, has issued no remote delete call and leaves the store as
\* it was.
C11_DeleteOfMissingQuoteFails ==
  [][\A t \in Tasks :
       (/\ Answered(t, "deleteQuote", "download_meta")
        /\ MetadataPath(task[t].id) \notin DOMAIN store) =>
         /\ task'[t].pc = "done"
         /\ task'[t].result.outcome = "raise"
         /\ DeleteCalls(task'[t]) = {}
         /\ store' = store]_vars

\* a delete of a quote that is not there failed while the store held
\* documents of another quote
C11_Witness ==
  \E t \in Tasks :
    /\ task[t].pc = "done" /\ task[t].op = "deleteQuote"
    /\ task[t].result.outcome = "raise"
    /\ Len(task[t].calls) = 1
    /\ MetadataPath(task[t].id) \notin DOMAIN store
    /\ DOMAIN store # {}

\* C12: after a deleteQuote of an id resolved successfully, and until a
\* later save of that id, the store holds neither the metadata document of
\* the id nor the rendered document its metadata referenced, and a
\* loadQuote of the id fails.
C12_DeletedStaysDeleted ==
  /\ \A id \in AllIds :
        saved[id].deleted # <<>> =>
          /\ MetadataPath(id) \notin DOMAIN store
          /\ saved[id].deleted \notin DOMAIN store
  /\ \A t \in Tasks :
        (/\ task[t].pc = "done" /\ task[t].op = "loadQuote"
         /\ saved[task[t].id].deleted # <<>>) =>
          task[t].result.outcome = "raise"

\* C13: when both uploads of a saveQuote succeeded and the creation of the
\* share link failed, its fallback included, saveQuote resolves to the
\* success envelope with download_url null, the id, the storage path and
\* the full metadata record, and the uploaded documents are in the store.
C13_ShareFailureDoesNotFailSave ==
  \A t \in Tasks :
    (/\ task[t].pc = "done" /\ task[t].op = "saveQuote"
     /\ task[t].share = "failed") =>
      /\ task[t].result.outcome = "return"
      /\ task[t].result.value =
           [success |-> TRUE, quote_id |-> task[t].quote.id,
            file_path |-> Str(FilePath(task[t].quote)),
            download_url |-> Null,
            metadata |-> Metadata(task[t].quote, FilePath(task[t].quote),
                                  now)]
      /\ FilePath(task[t].quote) \in DOMAIN store
      /\ store[FilePath(task[t].quote)] = generateQuoteHtml(task[t].quote)
      /\ MetadataPath(task[t].quote.id) \in DOMAIN store
      /\ SameRecord(JSONParse(store[MetadataPath(task[t].quote.id)]),
                    task[t].quote)

\* a save ended after create_shared_link_with_settings and
\* list_shared_links both failed
C13_Witness ==
  \E t \in Tasks :
    /\ task[t].pc = "done" /\ task[t].op = "saveQuote"
    /\ task[t].share = "failed" /\ task[t].failures = 2
    /\ task[t].result.outcome = "return"

\* C16: deleteQuote(id, customerId) validates the supplied customer: when
\* a customerId is supplied that differs from the customer_id in the
\* quote's metadata, no delete call is issued.
C16_DeleteChecksOwner ==
  \A t \in Tasks :
    (/\ task[t].op = "deleteQuote"
     /\ task[t].metadata # Undefined
     /\ task[t].customer \notin {Null, Undefined}
     /\ ~LooseEquals(Get(task[t].metadata, "customer_id"),
                     task[t].customer)) =>
      DeleteCalls(task[t]) = {}

\* the characters of the quote names that are no letter and no digit
Punctuation == {" ", "#", "_"}

Sanitized(name) ==
  [i \in 1..Len(name) |-> IF name[i] \in Punctuation THEN "_" ELSE name[i]]

RenderedPath(quoteData) ==
  <<"/dtf-quotes/">> \o Sanitized(quoteData.quote_name.v) \o <<"_">>
    \o quoteData.id.v \o <<".html">>

\* C17: a saveQuote that succeeds has stored the rendered document at
\* /dtf-quotes/{sanitizedName}_{id}.html, every character of quote_name
\* that is no letter and no digit replaced by one underscore, and the
\* metadata at /dtf-quotes/{id}_metadata.json; its envelope carries that
\* path, the id of the record and metadata with the record's
\* total_transfers ('Order #1' with id 1 gives /dtf-quotes/Order__1_1.html).
C17_SaveLayout ==
  \A t \in Tasks :
    (Finished(t, "saveQuote") /\ task[t].result.outcome = "return") =>
      LET q == task[t].quote
          envelope == task[t].result.value
      IN /\ envelope.file_path = Str(RenderedPath(q))
         /\ envelope.quote_id = q.id
         /\ envelope.metadata.total_transfers = q.total_transfers
         /\ RenderedPath(q) \in DOMAIN store
         /\ store[RenderedPath(q)].type = "html"
         /\ MetadataDocs(q.id) =
              {<<"/dtf-quotes/">> \o q.id.v \o <<"_metadata.json">>}
         /\ (q.quote_name.v = OrderNo1 /\ q.id.v = <<"1">>) =>
              envelope.file_path.v =
                <<"/dtf-quotes/", "O", "r", "d", "e", "r", "_", "_", "1",
                  "_", "1", ".html">>

\* 'Order #1' with 50 transfers was saved
C17_Witness ==
  \E t \in Tasks :
    /\ Finished(t, "saveQuote") /\ task[t].result.outcome = "return"
    /\ task[t].quote.quote_name.v = OrderNo1
    /\ task[t].result.value.metadata.total_transfers = Num(50)

\* the metadata document of quote id and the rendered document it names
\* are the same before and after the step
DocumentsUnchanged(id) ==
  LET m == MetadataPath(id)
      r == PathOf(Get(JSONParse(store[m]), "file_path"))
  IN m \in DOMAIN store =>
       /\ m \in DOMAIN store' /\ store'[m] = store[m]
       /\ r \in DOMAIN store => (r \in DOMAIN store' /\ store'[r] = store[r])

\* C18: a step of a saveQuote or deleteQuote on one id leaves the metadata
\* document and the rendered document of every other id unchanged.
C18_OtherIdsUntouched ==
  [][\A t \in Tasks, id \in AllIds :
       (/\ task[t].op \in {"saveQuote", "deleteQuote"}
        /\ task[t].pc \notin {"idle", "done"}
        /\ task'[t] # task[t]
        /\ task[t].id # id) =>
         DocumentsUnchanged(id)]_vars

----------------------------------------------------------------------------
(* Properties of the logo operations                                       *)

\* C14: loadCustomerLogo never raises; for a customer without saved logo
\* metadata it resolves to null, and after a saveCustomerLogo succeeded a
\* load whose remote call succeeds returns the data saved last.
C14_LogoLoadsLatestOrNull ==
  \A t \in Tasks :
    Finished(t, "loadCustomerLogo") =>
      /\ task[t].result.outcome = "return"
      /\ savedLogo[task[t].customer] = Null => task[t].result.value = Null
      /\ (/\ savedLogo[task[t].customer] # Null
          /\ task[t].rtin = "return" /\ task[t].failures = 0) =>
            task[t].result.value = savedLogo[task[t].customer]

\* the second of two saved logos was loaded, and: a customer without logo
\* got null
C14_Witness ==
  \E t \in Tasks :
    /\ Finished(t, "loadCustomerLogo")
    /\ task[t].result.value # Null
    /\ task[t].result.value = savedLogo[task[t].customer]
    /\ task[t].result.value.data = Num(2)
    /\ \E c \in Customers : savedLogo[c] = Null

\* the remote calls deleteCustomerLogo issues for a logo: the read of the
\* metadata (with the token loadCustomerLogo obtained), the delete of the
\* file it names, the delete of the metadata
LogoCalls(c, logoData, token, innerToken) ==
  <<[api |-> "download", path |-> LogoMetadataPath(c),
     token |-> innerToken],
    [api |-> "delete", path |-> LogoPath(c, logoData.filename),
     token |-> token],
    [api |-> "delete", path |-> LogoMetadataPath(c), token |-> token]>>

\* C15: deleteCustomerLogo reads the logo metadata first; when a logo
\* exists it deletes the file the metadata names and only after that the
\* metadata document; when no logo exists (the read gives none) it issues
\* no delete call and still reports success.
C15_LogoDeleteOrder ==
  \A t \in Tasks :
    task[t].op = "deleteCustomerLogo" =>
      LET T == task[t]
          c == T.customer
      IN /\ Len(T.calls) <= 3
         /\ Len(T.calls) > 1 =>
               /\ savedLogo[c] # Null \/ Finished(t, "deleteCustomerLogo")
               /\ \E logoData \in LogoInputs :
                    T.calls = SubSeq(LogoCalls(c, logoData, T.token,
                                               T.innerToken), 1,
                                     Len(T.calls))
         /\ T.calls # <<>> => T.calls[1].api = "download"
         /\ T.pc = "delete_logo_meta" =>
               T.calls[2].path \notin DOMAIN store
         /\ (T.pc = "done" /\ Len(T.calls) = 1) =>
               /\ T.result.outcome = "return"
               /\ T.result.value.success
               /\ DeleteCalls(T) = {}

\* one delete removed the file and then the metadata; (a later one found no
\* logo and reported success without a delete call: the second witness)
C15_Witness ==
  \E t \in Tasks :
    /\ Finished(t, "deleteCustomerLogo")
    /\ Len(task[t].calls) = 3
    /\ task[t].result.outcome = "return"
    /\ LogoMetadataPath(task[t].customer) \notin DOMAIN store

----------------------------------------------------------------------------
(* Properties of multi-call operations                                     *)

\* task t issues a remote storage call
Issues(t) == task'[t].calls # task[t].calls /\ task'[t].calls # <<>>

LastCall(T) == T.calls[Len(T.calls)]

\* C21: every remote storage call an operation issues carries the token the
\* token holder has at the time of the call (the one a getValidToken call
\* made just before it would return); no call carries a token the operation
\* obtained earlier and that was replaced since.
C21_CallsCarryCurrentToken ==
  [][\A t \in Tasks :
       Issues(t) => LastCall(task'[t]).token = accessToken']_vars

\* C22: deleteQuote deletes the rendered document first and the metadata
\* document second, and undoes nothing: when the delete of the metadata
\* fails after the delete of the document succeeded, deleteQuote raises,
\* issues no further call, and the store keeps the metadata record of the
\* id while the rendered document it names is absent.
C22_DeleteOrderNoRollback ==
  [][\A t \in Tasks :
       LET T == task[t]
           m == MetadataPath(T.id)
       IN /\ (T.op = "deleteQuote" /\ T.pc = "delete_html"
                /\ task'[t].pc = "delete_meta") =>
                 /\ Cardinality(DeleteCalls(T)) = 1
                 /\ LastCall(T).path = PathOf(Get(T.metadata, "file_path"))
                 /\ LastCall(T).path \notin DOMAIN store'
                 /\ LastCall(task'[t]).api = "delete"
                 /\ LastCall(task'[t]).path = m
                 /\ m \in DOMAIN store'
          /\ (T.op = "deleteQuote" /\ T.pc = "delete_meta"
                /\ task'[t].pc = "done"
                /\ task'[t].result.outcome = "raise") =>
                 /\ task'[t].calls = T.calls
                 /\ store' = store
                 /\ m \in DOMAIN store'
                 /\ JSONParse(store'[m]) = T.metadata
                 /\ PathOf(Get(T.metadata, "file_path")) \notin DOMAIN store'
     ]_vars

\* a deleteQuote raised on its second delete and left the metadata record
\* of a document that is gone
C22_Witness ==
  \E t \in Tasks :
    LET T == task[t]
    IN /\ Finished(t, "deleteQuote")
       /\ T.result.outcome = "raise"
       /\ Cardinality(DeleteCalls(T)) = 2
       /\ MetadataPath(T.id) \in DOMAIN store
       /\ PathOf(Get(StoredRecord(T.id), "file_path")) \notin DOMAIN store

\* the last response of a deleteQuote of a quote whose metadata record is
\* stored while the rendered document it names is absent, every remote call
\* of it having behaved normally: none failed on a document that exists
NormalRetryEnds(t) ==
  LET T == task[t]
      m == MetadataPath(T.id)
  IN /\ T.op = "deleteQuote"
     /\ T.pc \in {"download_meta", "delete_html", "delete_meta"}
     /\ task'[t].pc = "done"
     /\ m \in DOMAIN store
     /\ PathOf(Get(StoredRecord(T.id), "file_path")) \notin DOMAIN store
     /\ task'[t].result.outcome = "raise" => T.path \notin DOMAIN store

\* C25: a deleteQuote(id) that runs on a store holding the metadata record
\* of id without the rendered document it names, and whose remote calls all
\* behave normally (a delete of an absent path is rejected), ends with the
\* metadata document of id removed.
C25_RetryReconciles ==
  [][\A t \in Tasks :
       NormalRetryEnds(t) =>
         MetadataPath(task[t].id) \notin DOMAIN store']_vars

\* C26: whenever deleteCustomerLogo(customerId) resolves with success, the
\* store afterwards holds no logo metadata document of that customer,
\* whichever remote calls inside it failed.
C26_SuccessMeansNoLogo ==
  [][\A t \in Tasks :
       (/\ task[t].op = "deleteCustomerLogo"
        /\ task[t].pc \notin {"idle", "done"}
        /\ task'[t].pc = "done"
        /\ task'[t].result.outcome = "return") =>
         LogoMetadataPath(task[t].customer) \notin DOMAIN store']_vars

\* both requests saved the same id under the same name, with contents of
\* their own, and both resolved with their envelope
BothSaved ==
  /\ \A t \in Tasks : Finished(t, "saveQuote")
                       /\ task[t].result.outcome = "return"
  /\ task["t1"].quote # task["t2"].quote
  /\ FilePath(task["t1"].quote) = FilePath(task["t2"].quote)
  /\ task["t1"].quote.id = task["t2"].quote.id

\* the stored rendered document / metadata document is the one request t
\* uploaded
DocumentFrom(t) ==
  LET p == FilePath(task[t].quote)
  IN p \in DOMAIN store /\ store[p] = generateQuoteHtml(task[t].quote)

MetadataFrom(t) ==
  LET m == MetadataPath(task[t].quote.id)
  IN m \in DOMAIN store /\ store[m] = JSONStringify(task[t].metadata)

\* C23: nothing keeps two saveQuote calls for the same identifier apart:
\* each upload that succeeds replaces the document at its path with the
\* content of its own request, whatever the other request is doing, so that
\* once both have resolved the rendered document is the one of the request
\* whose document upload resolved last and the metadata the one of the
\* request whose metadata upload resolved last, which need not be the same
\* request.
C23_NoMutualExclusion ==
  /\ [](BothSaved => /\ \E t \in Tasks : DocumentFrom(t)
                     /\ \E t \in Tasks : MetadataFrom(t))
  /\ [][\A t \in Tasks :
         LET T == task[t]
         IN /\ (T.pc = "upload_html" /\ task'[t].pc = "upload_meta") =>
                 store'[FilePath(T.quote)] = generateQuoteHtml(T.quote)
            /\ (T.pc = "upload_meta" /\ task'[t].pc = "share_create") =>
                 store'[MetadataPath(T.quote.id)] =
                   JSONStringify(T.metadata)]_vars

\* both requests resolved successfully, and the store has the rendered
\* document of one with the metadata of the other
C23_Witness ==
  /\ BothSaved
  /\ DocumentFrom("t1") /\ ~DocumentFrom("t2")
  /\ MetadataFrom("t2") /\ ~MetadataFrom("t1")

\* the rendered documents in the folder of the quotes, and the paths the
\* stored metadata records name
RenderedDocuments == {p \in FolderEntries(store) : ~IsMetadataName(p)}

ReferencedPaths ==
  {PathOf(Get(JSONParse(store[m]), "file_path")) :
     m \in {p \in FolderEntries(store) :
              IsMetadataName(p) /\ ParsesAsJSON(store[p])}}

\* C24: between calls, after saveQuote and deleteQuote calls that all
\* succeeded (saves that give an existing id another quote_name included),
\* every rendered document in /dtf-quotes is the file_path of a stored
\* metadata record.
C24_NoOrphanDocuments ==
  Quiescent => RenderedDocuments \subseteq ReferencedPaths

============================================================================
